---- MODULE Spec2Model ----
(***************************************************************************)
(* The adaptive resumable chunked-upload engine of arosend                 *)
(* (src/app/components/TransferForm.tsx) and the two coordinator routes it *)
(* talks to (src/workers/app.ts), for one file of one transfer.            *)
(*                                                                         *)
(* One step of the model is one task of the browser's event loop: a user   *)
(* click, a timer, an XMLHttpRequest event or a fetch response, together   *)
(* with every promise reaction (microtask) it triggers.  Sizes are bytes.  *)
(***************************************************************************)
EXTENDS Integers, Sequences, FiniteSets, TLC

(***************************************************************************)
(* Bounds of the model.                                                    *)
(***************************************************************************)
MaxFileMB == 12      \* the large file of the model has this many MiB
MaxRuns == 2         \* invocations of uploadFileInChunks with a request or timer alive at once
MaxResumes == 2      \* clicks on a resume or retry button in one session
BreakerFileMB == 26  \* the file of the circuit-breaker runs has this many MiB
LongResumes == 4     \* clicks on a resume or retry button in one long session
MaxReadSize == 12    \* bytes of the largest file read by a reader on its own
MaxReadChunk == 5    \* bytes of the largest chunk size of a reader on its own
MaxFiles == 2        \* files of a transfer of several files

(***************************************************************************)
(* Program constants.                                                      *)
(***************************************************************************)
MB == 1048576
GB == 1024 * MB
MAX_RETRIES == 3

Tiers == {"excellent", "good", "fair", "poor", "unstable"}

Min(a, b) == IF a < b THEN a ELSE b
Max(a, b) == IF a > b THEN a ELSE b

\* Math.round(n / d) for n >= 0, d > 0: halves round up.
Round(n, d) == (n \div d) + (IF 2 * (n % d) >= d THEN 1 ELSE 0)

\* Math.ceil(n / d) for n >= 0, d > 0.
Ceil(n, d) == (n + d - 1) \div d

Range(s) == {s[i] : i \in 1..Len(s)}

RECURSIVE SumOver(_, _)
SumOver(S, f) ==
  IF S = {} THEN 0
  ELSE LET x == CHOOSE y \in S : TRUE IN f[x] + SumOver(S \ {x}, f)

(***************************************************************************)
(* NetworkAdapter: the pure parts.  Multipliers are kept as tenths.        *)
(***************************************************************************)
SpeedMultiplier10(q) ==
  CASE q = "excellent" -> 18
    [] q = "good" -> 14
    [] q = "fair" -> 10
    [] q = "poor" -> 8
    [] q = "unstable" -> 7

getAdaptiveChunkSize_Threshold50(size, partNumber, q) ==
  IF size < 50 * MB THEN size
  ELSE Max(5 * MB, Min(50 * MB, Round(8 * MB * SpeedMultiplier10(q), 10)))

\* partNumber = 0 stands for the omitted argument
getAdaptiveChunkSize(fileSize, partNumber, q) ==
  IF fileSize < 5 * MB THEN fileSize
  ELSE
    LET bracket == IF fileSize < 100 * MB THEN 5 * MB
                   ELSE IF fileSize < 1 * GB THEN 8 * MB
                   ELSE IF fileSize \div 10 < GB THEN 15 * MB
                   ELSE 25 * MB
        baseChunkSize == IF partNumber >= 1 /\ partNumber <= 3
                         THEN Max(5 * MB, Min(bracket, 5 * MB))
                         ELSE bracket
        adaptiveChunkSize == Round(baseChunkSize * SpeedMultiplier10(q), 10)
    IN Max(5 * MB, Min(50 * MB, adaptiveChunkSize))

ConcurrencyMultiplier10(q) ==
  CASE q = "excellent" -> 15
    [] q = "good" -> 12
    [] q = "fair" -> 10
    [] q = "poor" -> 8
    [] q = "unstable" -> 5

getAdaptiveConcurrency(fileSize, totalChunks, isDev, q) ==
  LET baseConcurrency ==
        IF isDev THEN Min(3, Max(1, Ceil(totalChunks * 5, 100)))
        ELSE IF fileSize < 100 * MB THEN Min(4, Max(2, totalChunks))
        ELSE IF fileSize < 1 * GB THEN Min(6, Max(3, Ceil(totalChunks * 10, 100)))
        ELSE IF fileSize \div 10 < GB THEN Min(8, Max(4, Ceil(totalChunks * 8, 100)))
        ELSE Min(12, Max(6, Ceil(totalChunks * 4, 100)))
      adaptiveConcurrency == Round(baseConcurrency * ConcurrencyMultiplier10(q), 10)
      maxConcurrency == IF isDev THEN 4 ELSE 12
  IN Max(1, Min(maxConcurrency, adaptiveConcurrency))

getOptimalChunkSizeForPart(baseChunkSize, partNumber, consecutiveSuccesses, q) ==
  IF partNumber <= 3 THEN Max(5 * MB, Min(baseChunkSize, 5 * MB))
  ELSE
    LET grow == consecutiveSuccesses >= 5 /\ q # "poor" /\ q # "unstable"
        \* sizeMultiplier in quarters: min(1 + increments * 0.25, 2.0)
        quarters == IF grow THEN Min(4 + consecutiveSuccesses \div 5, 8) ELSE 4
        adaptiveSize == Round(baseChunkSize * quarters, 4)
    IN Max(5 * MB, Min(50 * MB, adaptiveSize))

(***************************************************************************)
(* StreamingFileReader: byte ranges [lo, hi) of a file of `size` bytes cut *)
(* with the reader's chunkSize.                                            *)
(***************************************************************************)
getTotalChunks(size, chunkSize) == Ceil(size, chunkSize)

\* the chunk readChunks yields while its position is (partNumber-1)*chunkSize
readChunk(size, chunkSize, partNumber) ==
  LET position == (partNumber - 1) * chunkSize
  IN [lo |-> position, hi |-> Min(position + chunkSize, size)]

getChunk(size, readerChunkSize, partNumber, customChunkSize) ==
  LET chunkSize == IF customChunkSize # 0 THEN customChunkSize ELSE readerChunkSize
      start == (partNumber - 1) * readerChunkSize
  IN [lo |-> start, hi |-> Min(start + chunkSize, size)]

\* uploadChunkWithRetry, lines 932-933: the blob an attempt sends.
\* dynamicChunkSize = 0 stands for the omitted argument of a retry.
actualChunk(size, readerChunkSize, partNumber, dynamicChunkSize) ==
  LET chunk == readChunk(size, readerChunkSize, partNumber)
  IN IF dynamicChunkSize # 0 /\ dynamicChunkSize # chunk.hi - chunk.lo
     THEN getChunk(size, readerChunkSize, partNumber, dynamicChunkSize)
     ELSE chunk


\* Blob.slice(start, end): both ends are clamped to the size of the blob
slice(size, start, end) == [lo |-> Min(start, size), hi |-> Min(end, size)]

isLastChunk_Strict(end, size) == end > size

\* line 294
isLastChunk(end, size) == end >= size

\* a reader whose generator was not created; pc is "none", "new" (readChunks()
\* was called, next() not yet), "yielded" (suspended at the yield of line
\* 296), "timer" (waiting for the setTimeout of line 302) or "done"; yields
\* are the values next() has resolved to so far
NoReader == [pc |-> "none", chunkSize |-> 0, position |-> 0, partNumber |-> 0,
             end |-> 0, yields |-> <<>>]

\* new StreamingFileReader(file, chunkSize).readChunks(), lines 283-289
NewReader(chunkSize) ==
  [NoReader EXCEPT !.pc = "new", !.chunkSize = chunkSize, !.partNumber = 1]

\* lines 291-296: the loop test and the body up to the yield
readChunksLoop(rd, size) ==
  IF rd.position < size
  THEN LET end == Min(rd.position + rd.chunkSize, size)
           chunk == slice(size, rd.position, end)
           isLast == isLastChunk(end, size)
       IN [rd EXCEPT !.pc = "yielded", !.end = end,
                     !.yields = Append(@, [lo |-> chunk.lo, hi |-> chunk.hi,
                                           partNumber |-> rd.partNumber,
                                           isLast |-> isLast])]
  ELSE [rd EXCEPT !.pc = "done"]

\* lines 298-302: the generator is resumed after a yield
readChunksResume(rd) ==
  [rd EXCEPT !.position = rd.end, !.partNumber = @ + 1, !.pc = "timer"]

\* a transfer of several files as handleSubmit sees it: file[f] is the
\* FileInfo.status of file f, the state of its entry of uploadPromises
\* ("none", "uploading": uploadFileInChunks is running, "completing": the
\* POST /api/transfers/complete is in flight, "value", "null", "rejected")
\* and the state of a resumeFileUpload call for it ("none", "uploading",
\* "completing"); dbFiles are the rows of the table files whose
\* upload_status is 'completed'
NoTransfer == [file |-> <<>>, dbFiles |-> {}]

NewFile == [status |-> "pending", promise |-> "none", resume |-> "none"]

(***************************************************************************)
(* State.  The model follows one file (one FileInfo) of one transfer.      *)
(***************************************************************************)
VARIABLES
  transfer,           \* the files of a transfer of several files and its rows on the server
  reader,             \* a StreamingFileReader of the file and its readChunks generator
  fileSize,           \* file.size
  file,               \* FileInfo.file: "same" (the file that was added), "other", "none"
  reselect,           \* the file dialog of promptFileReselection and its timer
  isDevelopment,      \* window.location is localhost / port 5173
  connectionQuality,  \* NetworkAdapter.connectionQuality
  status,             \* FileInfo.status
  progress,           \* FileInfo.progress
  uploadedParts,      \* FileInfo.uploadedParts, as the list of part numbers
  pausedUploads,      \* the file's id is in the pausedUploads state set
  isUploading,        \* the isUploading state (handleSubmit is running)
  uploadComplete,     \* the uploadComplete state
  transferId,         \* the transferId state is non-empty
  controller,         \* abortControllersRef entry: 0, or the run whose controller it is
  storage,            \* localStorage 'arosend_upload_state'
  transferStatus,     \* transfers.status in the coordinator's database
  storedParts,        \* part numbers /api/uploads/chunk has stored and acknowledged
  runs,               \* one record per invocation of uploadFileInChunks
  pauseInEffect,      \* pauseFileUpload was called and resumeFileUpload not since
  resumes,            \* calls of resumeFileUpload so far
  permanentFailure    \* a chunk has used up its attempts and resumeFileUpload not called since

vars == <<transfer, reader, fileSize, file, reselect, isDevelopment, connectionQuality, status, progress,
          uploadedParts, pausedUploads, isUploading, uploadComplete, transferId,
          controller, storage, transferStatus, storedParts, runs,
          pauseInEffect, resumes, permanentFailure>>

\* a multipart chunk is never smaller than 5 MiB, which bounds the part numbers
MaxParts == Ceil(fileSize, 5 * MB)
Parts == 1..MaxParts
Runs == 1..MaxRuns
FileSizes == {3 * MB, MaxFileMB * MB}

\* promptFileReselection: st is "none", "open" (the file dialog is shown) or
\* "timer" (the setTimeout of line 1365 is pending); transferId is the
\* transferId state of the render whose resumeFileUpload opened the dialog
NoReselect == [st |-> "none", transferId |-> FALSE]

NoSnapshot == [saved |-> FALSE, status |-> "pending", uploadedParts |-> <<>>]

\* one chunk-upload task: the promise uploadCallback returned for a part.
\* retryCount is the argument of the running uploadChunkWithRetry call, calls
\* the number of xhr.send() of this dispatch so far, [lo, hi) the bytes of
\* the blob sent last.  Once the promise is fulfilled, or rejected by a pause
\* or an abort, the call frames are gone and retryCount and calls are 0.
\* err is the error the promise was rejected with or, while the task waits
\* for a retry, the kind of the error its catch block holds.
NoTask == [st |-> "none", retryCount |-> 0, calls |-> 0, lo |-> 0, hi |-> 0,
           err |-> "none"]

\* validated: the resumeFileUpload that started the invocation got the answer
\* valid from /api/transfers/validate before (the branch of line 1466).
\* consecutiveServerErrors is not a variable of the code: it counts the HTTP
\* 500 answers of the invocation since its last successful chunk upload.
IdleRun ==
  [pc |-> "idle", outcome |-> "none", caller |-> "none",
   pausedSnap |-> FALSE, aborted |-> FALSE, validated |-> FALSE,
   chunkSize |-> 0, chunks |-> 0, concurrency |-> 0,
   CONCURRENT_UPLOADS |-> 0, serverErrorCount |-> 0, consecutiveSuccesses |-> 0,
   consecutiveServerErrors |-> 0,
   uploadedPartNumbers |-> {}, uploadParts |-> <<>>,
   lastRead |-> 0, readingComplete |-> FALSE,
   chunkQueue |-> <<>>, activeUploads |-> <<>>, currentConcurrency |-> 0,
   scanIdx |-> 0,
   puts |-> 0,   \* PUT /api/upload-simple requests this invocation has sent
   task |-> [p \in Parts |-> NoTask],
   chunkProgress |-> [p \in Parts |-> -1],
   returned |-> <<>>, finalizeWith |-> <<>>]

Settled(t) == t.st \in {"fulfilled", "rejected"}
Pending(t) == t.st \in {"inflight", "backoff"}


(***************************************************************************)
(* uploadFileInChunks: the catch and finally blocks (lines 1182-1238) for  *)
(* the error `err` thrown out of the try block, and what the caller does   *)
(* with the returned list (handleSubmit 741-747, resumeFileUpload          *)
(* 1529-1534).                                                             *)
(***************************************************************************)
\* the catch block returning the parts uploaded so far, not an empty list,
\* when the upload was paused or cancelled
uploadFileInChunksCatch_ReturnsParts(R, err) ==
  LET cleaned == [R EXCEPT !.chunkProgress = [p \in Parts |-> -1]]
  IN CASE err = "paused" ->
            [cleaned EXCEPT !.outcome = "paused", !.returned = R.uploadParts]
       [] err = "cancelled" ->
            [cleaned EXCEPT !.outcome = "cancelled", !.returned = R.uploadParts]
       [] OTHER ->
            [cleaned EXCEPT !.outcome = "error", !.returned = <<>>]

uploadFileInChunksCatch(R, err) ==
  LET cleaned == [R EXCEPT !.chunkProgress = [p \in Parts |-> -1]]
  IN CASE err = "paused" ->
            [cleaned EXCEPT !.outcome = "paused", !.returned = <<>>]
       [] err = "cancelled" ->
            [cleaned EXCEPT !.outcome = "cancelled", !.returned = <<>>]
       [] OTHER ->
            [cleaned EXCEPT !.outcome = "error", !.returned = <<>>]

afterUpload(R) ==
  IF R.outcome # "error" /\ Len(R.returned) > 0
  THEN [R EXCEPT !.pc = "completing", !.finalizeWith = R.returned]
  ELSE [R EXCEPT !.pc = "done"]

Throw(R, err) == afterUpload(uploadFileInChunksCatch(R, err))

(***************************************************************************)
(* streamingConcurrentUpload (lines 327-421).                              *)
(***************************************************************************)
RemoveAt(s, i) == [j \in 1..(Len(s) - 1) |-> IF j < i THEN s[j] ELSE s[j + 1]]

\* the scan of lines 408-413 without activeUploads.delete: the entry of a
\* fulfilled promise stays in the map
Scan_KeepsEntry(R, i) ==
  LET stop == {j \in i..Len(R.activeUploads) :
                 R.task[R.activeUploads[j]].st # "rejected"}
  IN IF stop = {} THEN [R EXCEPT !.pc = "top", !.scanIdx = 0]
     ELSE LET j == CHOOSE x \in stop : \A y \in stop : x <= y
          IN IF Pending(R.task[R.activeUploads[j]])
             THEN [R EXCEPT !.pc = "scanWait", !.scanIdx = j]
             ELSE [R EXCEPT !.pc = "top", !.scanIdx = 0]

\* lines 408-413: await the promises of activeUploads in insertion order,
\* delete the first one that is fulfilled.  A pending promise blocks the scan.
RECURSIVE Scan(_, _)
Scan(R, i) ==
  IF i > Len(R.activeUploads) THEN [R EXCEPT !.pc = "top", !.scanIdx = 0]
  ELSE LET t == R.task[R.activeUploads[i]]
       IN IF Pending(t) THEN [R EXCEPT !.pc = "scanWait", !.scanIdx = i]
          ELSE IF t.st = "fulfilled"
          THEN [R EXCEPT !.activeUploads = RemoveAt(R.activeUploads, i),
                         !.pc = "top", !.scanIdx = 0]
          ELSE Scan(R, i + 1)

\* line 405: Promise.race over activeUploads.values(): of the promises that
\* are already settled the first in insertion order wins.
Race(R) ==
  LET settled == {i \in 1..Len(R.activeUploads) : Settled(R.task[R.activeUploads[i]])}
  IN IF settled = {} THEN [R EXCEPT !.pc = "raceWait"]
     ELSE LET w == CHOOSE i \in settled : \A j \in settled : i <= j
              t == R.task[R.activeUploads[w]]
          IN IF t.st = "fulfilled" THEN Scan(R, 1) ELSE Throw(R, t.err)

\* the promise reactions that run when the task of part p has just settled
Continue(R, p) ==
  IF R.pc = "raceWait"
  THEN IF R.task[p].st = "fulfilled" THEN Scan(R, 1) ELSE Throw(R, R.task[p].err)
  ELSE IF R.pc = "scanWait" /\ R.activeUploads[R.scanIdx] = p
  THEN Scan(R, R.scanIdx)
  ELSE R

\* uploadChunkWithRetry up to xhr.send (lines 929-1068): checkPauseOrAbort
\* rejects before any request is made, otherwise one request is sent.
StartAttempt(R, p, retryCount, dynamicChunkSize) ==
  IF R.pausedSnap \/ R.aborted
  THEN [R EXCEPT !.task[p] = [@ EXCEPT !.st = "rejected", !.retryCount = 0, !.calls = 0,
                                       !.err = IF R.pausedSnap THEN "paused"
                                               ELSE "cancelled"],
                 !.chunkProgress[p] = -1]
  ELSE LET sent == actualChunk(fileSize, R.chunkSize, p, dynamicChunkSize)
       IN [R EXCEPT !.task[p] = [st |-> "inflight", retryCount |-> retryCount,
                                 calls |-> @.calls + 1, lo |-> sent.lo,
                                 hi |-> sent.hi, err |-> "none"],
                    !.chunkProgress[p] = 0]

\* lines 370-396 and 1170-1174: one turn of the dispatch loop
DispatchOne(R, q) ==
  LET p == Head(R.chunkQueue)
      optimalChunkSize ==
        getOptimalChunkSizeForPart(R.chunkSize, p, R.consecutiveSuccesses, q)
      queued == [R EXCEPT !.chunkQueue = Tail(@),
                          !.currentConcurrency = @ + 1,
                          !.activeUploads = Append(@, p)]
  IN StartAttempt(queued, p, 0, optimalChunkSize)

CanDispatch(R) ==
  Len(R.chunkQueue) > 0 /\ R.currentConcurrency < R.concurrency

RECURSIVE DispatchAll(_, _)
DispatchAll(R, q) ==
  IF CanDispatch(R) THEN DispatchAll(DispatchOne(R, q), q) ELSE R

\* the scheduler without its capacity test and without the wait of lines
\* 404-414: whatever is queued is dispatched and the loop goes on at once
DispatchAndWait_NoCap(R, q) ==
  LET D == IF Len(R.chunkQueue) > 0 THEN DispatchOne(R, q) ELSE R
  IN [D EXCEPT !.pc = "top"]

\* The rest of processNextChunk and of the loop body after a read.  The tasks
\* checkPauseOrAbort rejected run their catch handlers (consecutiveSuccesses
\* = 0, currentConcurrency--) only after the synchronous dispatch loop and
\* after the guard of line 404 has been evaluated.
DispatchAndWait(R, q) ==
  LET D == DispatchAll(R, q)
      fresh == {p \in Range(D.activeUploads) \ Range(R.activeUploads) :
                  D.task[p].st = "rejected"}
      mustWait == Len(D.activeUploads) > 0
                  /\ (D.currentConcurrency >= D.concurrency \/ Len(D.chunkQueue) = 0)
      E == [D EXCEPT !.currentConcurrency = @ - Cardinality(fresh),
                     !.consecutiveSuccesses = IF fresh = {} THEN @ ELSE 0]
  IN IF mustWait THEN Race(E) ELSE [E EXCEPT !.pc = "top"]

\* ReadNext with the generator's loop condition off by one chunk
\* (position + chunkSize < size): the last chunk is never yielded
ReadNext_DropsLast(R, q) ==
  LET n == R.lastRead + 1
      more == n * R.chunkSize < fileSize
      read == IF more
              THEN [R EXCEPT !.lastRead = n,
                             !.chunkQueue = IF n \in R.uploadedPartNumbers
                                            THEN @ ELSE Append(@, n)]
              ELSE [R EXCEPT !.readingComplete = TRUE]
  IN DispatchAndWait(read, q)

\* chunkIterator.next() (readChunks, lines 288-304) and lines 352-366
ReadNext(R, q) ==
  LET n == R.lastRead + 1
      more == (n - 1) * R.chunkSize < fileSize
      read == IF more
              THEN [R EXCEPT !.lastRead = n,
                             !.chunkQueue = IF n \in R.uploadedPartNumbers
                                            THEN @ ELSE Append(@, n)]
              ELSE [R EXCEPT !.readingComplete = TRUE]
  IN DispatchAndWait(read, q)

\* the loop condition of line 400 and processNextChunk up to the read; every
\* next() after the first one waits for the generator's setTimeout
LoopTop(R, q) ==
  IF ~(~R.readingComplete \/ Len(R.chunkQueue) > 0 \/ Len(R.activeUploads) > 0)
  THEN [R EXCEPT !.pc = "finishing"]
  ELSE IF Len(R.chunkQueue) < R.concurrency * 2 /\ ~R.readingComplete
  THEN IF R.lastRead = 0 THEN ReadNext(R, q) ELSE [R EXCEPT !.pc = "reading"]
  ELSE DispatchAndWait(R, q)


(***************************************************************************)
(* uploadFileInChunks (lines 792-1181).                                    *)
(***************************************************************************)
\* updateRealTimeProgress (lines 892-927).  Line 898 reads CHUNK_SIZE, a name
\* that is declared nowhere: evaluating it throws a ReferenceError, which
\* happens as soon as uploadParts has an element.
updateRealTimeProgress(R) ==
  IF Len(R.uploadParts) > 0 THEN [threw |-> TRUE, progress |-> 0]
  ELSE LET counted == {p \in Parts : R.chunkProgress[p] >= 0
                                     /\ p \notin Range(R.uploadParts)}
           totalBytesUploaded == SumOver(counted, R.chunkProgress)
       IN [threw |-> FALSE,
           progress |-> Min(Round(totalBytesUploaded * 100, fileSize), 100)]

\* lines 813-856, 1157-1175: the run of uploadFileInChunks up to its first
\* wait.  initParts is fileInfo.uploadedParts, pausedSnap the pausedUploads
\* set of the render whose closure is running.
isSingleUpload_Strict(BASE_CHUNK_SIZE, size) == BASE_CHUNK_SIZE > size

\* line 814
isSingleUpload(BASE_CHUNK_SIZE, size) == BASE_CHUNK_SIZE >= size

NewRun(caller, initParts, pausedSnap, q) ==
  LET BASE_CHUNK_SIZE == getAdaptiveChunkSize(fileSize, 0, q)
      single == isSingleUpload(BASE_CHUNK_SIZE, fileSize)
      chunks == IF single THEN 1 ELSE Ceil(fileSize, BASE_CHUNK_SIZE)
      conc == getAdaptiveConcurrency(fileSize, chunks, isDevelopment, q)
      R0 == [IdleRun EXCEPT !.caller = caller, !.pausedSnap = pausedSnap,
                            !.chunkSize = BASE_CHUNK_SIZE, !.chunks = chunks,
                            !.concurrency = conc, !.CONCURRENT_UPLOADS = conc,
                            !.uploadedPartNumbers = Range(initParts),
                            !.uploadParts = initParts]
  IN IF single THEN [R0 EXCEPT !.pc = "single", !.puts = 1]
     ELSE IF updateRealTimeProgress(R0).threw THEN Throw(R0, "failed")
     ELSE LoopTop(R0, q)

\* The closure of an invocation that has returned and has no request or timer
\* left is garbage: nothing can read or change it any more.  Its record is
\* dropped at once, and a new invocation takes the first free record.
Free(R) == R.pc = "idle"

HasFreeRun == \E r \in Runs : Free(runs[r])

FreeRun == CHOOSE r \in Runs : Free(runs[r]) /\ \A x \in Runs : Free(runs[x]) => r <= x

Collect(rs) ==
  [x \in Runs |-> IF rs[x].pc = "done" /\ \A p \in Parts : ~Pending(rs[x].task[p])
                  THEN IdleRun ELSE rs[x]]

WithNewRun(r, Rnew) == Collect([runs EXCEPT ![r] = Rnew])

\* what the end of a run does to the component's state: the setFormData calls
\* of the catch block, the finally block, and handleSubmit's finally
Thrown(Rold, Rnew) ==
  Rold.outcome = "none" /\ Rnew.outcome \in {"paused", "cancelled", "error"}

EndEffects(Rold, Rnew, st0, up0, iu0, c0) ==
  /\ status' = IF Thrown(Rold, Rnew) /\ Rnew.outcome = "paused" THEN "paused"
               ELSE IF Thrown(Rold, Rnew) /\ Rnew.outcome = "error" THEN "error"
               ELSE st0
  /\ uploadedParts' = IF Thrown(Rold, Rnew) /\ Rnew.outcome = "paused"
                      THEN Rnew.uploadParts ELSE up0
  /\ isUploading' = IF Thrown(Rold, Rnew) /\ Rnew.pc = "done" /\ Rnew.caller = "submit"
                    THEN FALSE ELSE iu0
  /\ controller' = IF Thrown(Rold, Rnew) THEN 0 ELSE c0

\* the first updateRealTimeProgress of a multipart run (line 1161)
StartEffects(Rnew, st0, up0) ==
  IF Rnew.pc = "single" \/ Len(Rnew.uploadParts) > 0
  THEN [status |-> st0, uploadedParts |-> up0, progress |-> progress]
  ELSE [status |-> "uploading", uploadedParts |-> <<>>, progress |-> 0]

\* handleSubmit (lines 673-748) for the first submit of the file:
\* POST /api/transfers, status 'uploading', saveUploadState with the form
\* data of the running render, then uploadFileInChunks.
handleSubmit(q) ==
  /\ status = "pending" /\ ~isUploading /\ HasFreeRun
  /\ LET r == FreeRun
         Rnew == NewRun("submit", uploadedParts, pausedUploads, q)
         s == StartEffects(Rnew, "uploading", uploadedParts)
     IN /\ runs' = WithNewRun(r, Rnew)
        /\ progress' = s.progress
        /\ EndEffects(IdleRun, Rnew, s.status, s.uploadedParts, TRUE, r)
  /\ connectionQuality' = q
  /\ transferId' = TRUE
  /\ transferStatus' = "pending"
  /\ storage' = [saved |-> TRUE, status |-> status, uploadedParts |-> uploadedParts]
  /\ UNCHANGED <<transfer, reader, fileSize, file, reselect, isDevelopment, pausedUploads, uploadComplete, storedParts,
                 pauseInEffect, resumes, permanentFailure>>


\* AbortController.abort() for the controller of run R: every request in
\* flight fires its abort listener (lines 1035-1048), the PUT of a single
\* upload rejects with an AbortError
AbortRun(R) ==
  LET inflight == {p \in Parts : R.task[p].st = "inflight"}
      err == IF R.pausedSnap THEN "paused" ELSE "cancelled"
      R1 == [R EXCEPT
               !.aborted = TRUE,
               !.task = [p \in Parts |->
                           IF p \in inflight
                           THEN [R.task[p] EXCEPT !.st = "rejected", !.err = err,
                                                  !.retryCount = 0, !.calls = 0]
                           ELSE R.task[p]],
               !.chunkProgress = [p \in Parts |->
                                    IF p \in inflight THEN -1 ELSE R.chunkProgress[p]],
               !.currentConcurrency = @ - Cardinality(inflight),
               !.consecutiveSuccesses = IF inflight = {} THEN @ ELSE 0]
  IN IF R.pc = "single" THEN Throw(R1, "cancelled")
     ELSE IF R.pc = "raceWait" /\ inflight # {} THEN Throw(R1, err)
     ELSE IF R.pc = "scanWait" THEN Scan(R1, R1.scanIdx)
     ELSE R1

\* pauseFileUpload (lines 1442-1456); the pause buttons are rendered for a
\* file whose status is 'uploading'
pauseFileUpload ==
  /\ status = "uploading" /\ ~uploadComplete
  /\ pausedUploads' = TRUE
  /\ pauseInEffect' = TRUE
  /\ IF controller # 0
     THEN LET Rnew == AbortRun(runs[controller])
          IN /\ runs' = Collect([runs EXCEPT ![controller] = Rnew])
             /\ EndEffects(runs[controller], Rnew, "paused", uploadedParts,
                           isUploading, controller)
     ELSE /\ status' = "paused"
          /\ UNCHANGED <<runs, uploadedParts, isUploading, controller>>
  /\ UNCHANGED <<transfer, reader, fileSize, file, reselect, isDevelopment, connectionQuality, progress,
                 uploadComplete, transferId, storage, transferStatus, storedParts,
                 resumes, permanentFailure>>

\* the Cancel All button (lines 1949-1958), rendered while isUploading
cancelAll ==
  /\ isUploading /\ ~uploadComplete
  /\ storage' = NoSnapshot
  /\ IF controller # 0
     THEN LET Rnew == AbortRun(runs[controller])
          IN /\ runs' = Collect([runs EXCEPT ![controller] = Rnew])
             /\ EndEffects(runs[controller], Rnew, status, uploadedParts,
                           FALSE, controller)
     ELSE /\ isUploading' = FALSE
          /\ UNCHANGED <<runs, status, uploadedParts, controller>>
  /\ UNCHANGED <<transfer, reader, fileSize, file, reselect, isDevelopment, connectionQuality, progress,
                 pausedUploads, uploadComplete, transferId, transferStatus,
                 storedParts, pauseInEffect, resumes, permanentFailure>>

\* GET /api/transfers/validate/:transferId (app.ts lines 547-588)
validateTransfer(isExpired, tStatus) ==
  IF isExpired THEN FALSE
  ELSE IF tStatus = "complete" THEN FALSE
  ELSE TRUE

\* resumeFileUpload (lines 1458-1548) called with a fileInfo whose file is
\* fileArg and whose uploadedParts are initParts, from a render whose
\* transferId state is tid and whose pausedUploads set is pausedSnap.
\* fetchOk: the validation request got an answer; nowExpired: the transfer's
\* expires_at, which /api/extend-transfer-credits can move, lies in the past.
resumeCall(q, fetchOk, nowExpired, tid, fileArg, initParts, pausedSnap, after) ==
  /\ pauseInEffect' = FALSE
  /\ permanentFailure' = FALSE
  /\ IF tid /\ ~fetchOk
     THEN /\ reselect' = after
          /\ UNCHANGED <<status, progress, uploadedParts, pausedUploads, isUploading,
                         transferId, controller, storage, runs, connectionQuality>>
     ELSE IF tid /\ ~validateTransfer(nowExpired, transferStatus)
     THEN /\ status' = "error"
          /\ transferId' = FALSE
          /\ storage' = NoSnapshot
          /\ reselect' = after
          /\ UNCHANGED <<progress, uploadedParts, pausedUploads, isUploading,
                         controller, runs, connectionQuality>>
     ELSE IF fileArg = "none"
     THEN /\ reselect' = [st |-> "open", transferId |-> tid]
          /\ UNCHANGED <<status, progress, uploadedParts, pausedUploads, isUploading,
                         transferId, controller, storage, runs, connectionQuality>>
     ELSE /\ HasFreeRun
          /\ LET r == FreeRun
                 Rnew == [NewRun("resume", initParts, pausedSnap, q)
                            EXCEPT !.validated = tid]
                 s == StartEffects(Rnew, "uploading", uploadedParts)
             IN /\ runs' = WithNewRun(r, Rnew)
                /\ progress' = s.progress
                /\ pausedUploads' = FALSE
                /\ connectionQuality' = q
                /\ reselect' = after
                /\ EndEffects(IdleRun, Rnew, s.status, s.uploadedParts, isUploading, r)
                /\ UNCHANGED <<transferId, storage>>
  /\ UNCHANGED <<transfer, reader, fileSize, file, isDevelopment, uploadComplete, transferStatus,
                 storedParts>>

\* a click on the resume or retry button of the file, rendered while it is
\* 'paused' or 'error' (lines 1851-1858), or on Resume All or Restore Files
resumeFileUpload(q, fetchOk, nowExpired) ==
  /\ status \in {"paused", "error"} /\ ~uploadComplete /\ HasFreeRun
  /\ reselect.st # "open"
  /\ resumes' = resumes + 1
  /\ resumeCall(q, fetchOk, nowExpired, transferId, file, uploadedParts,
                pausedUploads, reselect)

\* the comparison of line 1350, accepting any file the user selects
sameFile_Any(selectedName, selectedSize) == TRUE

\* line 1350: the selected file has the name and the size of the original;
\* the original's name is "same", its size fileSize
sameFile(selectedName, selectedSize) ==
  selectedName = "same" /\ selectedSize = fileSize

\* promptFileReselection, fileInput.onchange with one file selected (lines
\* 1344-1389)
fileSelected(selectedName, selectedSize) ==
  /\ reselect.st = "open"
  /\ IF sameFile(selectedName, selectedSize)
     THEN /\ file' = (IF selectedName = "same" /\ selectedSize = fileSize
                      THEN "same" ELSE "other")
          /\ status' = "paused"
          /\ reselect' = [reselect EXCEPT !.st = "timer"]
     ELSE /\ status' = "error"
          /\ reselect' = NoReselect
          /\ UNCHANGED file
  /\ UNCHANGED <<transfer, reader, fileSize, isDevelopment, connectionQuality, progress,
                 uploadedParts, pausedUploads, isUploading, uploadComplete,
                 transferId, controller, storage, transferStatus, storedParts,
                 runs, pauseInEffect, resumes, permanentFailure>>

\* promptFileReselection, fileInput.oncancel (lines 1392-1405)
selectionCancelled ==
  /\ reselect.st = "open"
  /\ status' = "error"
  /\ reselect' = NoReselect
  /\ UNCHANGED <<transfer, reader, fileSize, file, isDevelopment, connectionQuality, progress,
                 uploadedParts, pausedUploads, isUploading, uploadComplete,
                 transferId, controller, storage, transferStatus, storedParts,
                 runs, pauseInEffect, resumes, permanentFailure>>

\* the setTimeout of line 1365 fires: resumeFileUpload(updatedFileInfo), the
\* function and the fileInfo of the render that opened the dialog, before any
\* upload of the restored file: no uploaded parts, nothing paused
reselectTimer(q, fetchOk, nowExpired) ==
  /\ reselect.st = "timer"
  /\ resumeCall(q, fetchOk, nowExpired, reselect.transferId, file, <<>>, FALSE,
                NoReselect)
  /\ UNCHANGED resumes

\* the setTimeout of line 417 fires: loop condition and processNextChunk
Loop(r) ==
  /\ runs[r].pc = "top"
  /\ LET Rnew == LoopTop(runs[r], connectionQuality)
     IN /\ runs' = Collect([runs EXCEPT ![r] = Rnew])
        /\ EndEffects(runs[r], Rnew, status, uploadedParts, isUploading, controller)
  /\ UNCHANGED <<transfer, reader, fileSize, file, reselect, isDevelopment, connectionQuality, progress,
                 pausedUploads, uploadComplete, transferId, storage,
                 transferStatus, storedParts, pauseInEffect, resumes, permanentFailure>>

\* the generator's setTimeout of line 302 fires: next() resolves
Read(r) ==
  /\ runs[r].pc = "reading"
  /\ LET Rnew == ReadNext(runs[r], connectionQuality)
     IN /\ runs' = Collect([runs EXCEPT ![r] = Rnew])
        /\ EndEffects(runs[r], Rnew, status, uploadedParts, isUploading, controller)
  /\ UNCHANGED <<transfer, reader, fileSize, file, reselect, isDevelopment, connectionQuality, progress,
                 pausedUploads, uploadComplete, transferId, storage,
                 transferStatus, storedParts, pauseInEffect, resumes, permanentFailure>>

\* lines 1177-1181 and the finally block: the loop has ended, the run returns
\* uploadParts and the caller posts them to /api/transfers/complete
Finish(r) ==
  /\ runs[r].pc = "finishing"
  /\ LET R == runs[r]
         Rnew == afterUpload([R EXCEPT !.outcome = "ok",
                                       !.returned = R.uploadParts,
                                       !.chunkProgress = [p \in Parts |-> -1]])
     IN /\ runs' = Collect([runs EXCEPT ![r] = Rnew])
        /\ isUploading' = IF Rnew.pc = "done" /\ Rnew.caller = "submit"
                          THEN FALSE ELSE isUploading
  /\ controller' = 0
  /\ UNCHANGED <<transfer, reader, fileSize, file, reselect, isDevelopment, connectionQuality, status, progress,
                 uploadedParts, pausedUploads, uploadComplete,
                 transferId, storage, transferStatus, storedParts, pauseInEffect, resumes, permanentFailure>>


\* POST /api/transfers/complete answers (app.ts lines 664-729) and the
\* caller goes on: handleSubmit lines 750-789, resumeFileUpload 1535-1547
completeResponse(r, ok) ==
  /\ runs[r].pc = "completing"
  /\ runs' = Collect([runs EXCEPT ![r].pc = "done"])
  /\ transferStatus' = IF ok THEN "complete" ELSE transferStatus
  /\ IF runs[r].caller = "submit"
     THEN /\ isUploading' = FALSE
          /\ uploadComplete' = ok
          /\ storage' = IF ok THEN NoSnapshot ELSE storage
          /\ UNCHANGED status
     ELSE /\ status' = IF ok THEN status ELSE "error"
          /\ UNCHANGED <<isUploading, uploadComplete, storage>>
  /\ UNCHANGED <<transfer, reader, fileSize, file, reselect, isDevelopment, connectionQuality, progress,
                 uploadedParts, pausedUploads, transferId, controller, storedParts,
                 pauseInEffect, resumes, permanentFailure>>

\* PUT /api/upload-simple answers (lines 863-888)
singleResponse(r, ok) ==
  /\ runs[r].pc = "single"
  /\ LET R == runs[r]
         Rnew == IF ok
                 THEN afterUpload([R EXCEPT !.outcome = "ok", !.returned = <<1>>])
                 ELSE Throw(R, "failed")
     IN /\ runs' = Collect([runs EXCEPT ![r] = Rnew])
        /\ EndEffects(R, Rnew, status, uploadedParts, isUploading, 0)
  /\ UNCHANGED <<transfer, reader, fileSize, file, reselect, isDevelopment, connectionQuality, progress,
                 pausedUploads, uploadComplete, transferId, storage,
                 transferStatus, storedParts, pauseInEffect, resumes, permanentFailure>>

\* uploadParts.unshift(result) in place of push
pushPart_Unshift(uploadParts_, p) == <<p>> \o uploadParts_

\* line 376: uploadParts.push(result)
pushPart(uploadParts_, p) == Append(uploadParts_, p)

\* the load listener with a 2xx status and a JSON body (lines 996-1016) and
\* the .then of line 375
chunkLoaded(r, p) ==
  /\ runs[r].task[p].st = "inflight"
  /\ LET R == runs[r]
         R1 == [R EXCEPT !.task[p].st = "fulfilled",
                         !.task[p].retryCount = 0, !.task[p].calls = 0,
                         !.chunkProgress[p] = -1,
                         !.consecutiveSuccesses = @ + 1,
                         !.consecutiveServerErrors = 0,
                         !.uploadParts = pushPart(@, p),
                         !.currentConcurrency = @ - 1]
         Rnew == Continue(R1, p)
     IN /\ runs' = Collect([runs EXCEPT ![r] = Rnew])
        /\ EndEffects(R, Rnew, status, uploadedParts, isUploading, controller)
  /\ storedParts' = storedParts \cup {p}
  /\ UNCHANGED <<transfer, reader, fileSize, file, reselect, isDevelopment, connectionQuality, progress,
                 pausedUploads, uploadComplete, transferId, storage,
                 transferStatus, pauseInEffect, resumes, permanentFailure>>

\* the circuit breaker without its floor: Math.max(floor, ...) left out
serverError_NoFloor(R) ==
  LET count == R.serverErrorCount + 1
      MAX_SERVER_ERRORS == IF isDevelopment THEN 2 ELSE 5
      floor == IF isDevelopment THEN 1 ELSE 2
      reduced == IF isDevelopment THEN (R.CONCURRENT_UPLOADS * 3) \div 10
                 ELSE (R.CONCURRENT_UPLOADS * 5) \div 10
  IN [R EXCEPT !.serverErrorCount = count,
               !.CONCURRENT_UPLOADS =
                  IF count >= MAX_SERVER_ERRORS /\ @ > floor
                  THEN reduced ELSE @]

\* the circuit breaker with Math.min in place of Math.max
serverError_MinFloor(R) ==
  LET count == R.serverErrorCount + 1
      MAX_SERVER_ERRORS == IF isDevelopment THEN 2 ELSE 5
      floor == IF isDevelopment THEN 1 ELSE 2
      reduced == IF isDevelopment THEN (R.CONCURRENT_UPLOADS * 3) \div 10
                 ELSE (R.CONCURRENT_UPLOADS * 5) \div 10
  IN [R EXCEPT !.serverErrorCount = count,
               !.CONCURRENT_UPLOADS =
                  IF count >= MAX_SERVER_ERRORS /\ @ > floor
                  THEN Min(floor, reduced) ELSE @]

\* lines 1085-1104: the circuit breaker, for an error whose message holds
\* '500' or a connection-abort text
serverError(R) ==
  LET count == R.serverErrorCount + 1
      MAX_SERVER_ERRORS == IF isDevelopment THEN 2 ELSE 5
      floor == IF isDevelopment THEN 1 ELSE 2
      reduced == IF isDevelopment THEN (R.CONCURRENT_UPLOADS * 3) \div 10
                 ELSE (R.CONCURRENT_UPLOADS * 5) \div 10
  IN [R EXCEPT !.serverErrorCount = count,
               !.CONCURRENT_UPLOADS =
                  IF count >= MAX_SERVER_ERRORS /\ @ > floor
                  THEN Max(floor, reduced) ELSE @]

\* the retry test off by one: retryCount <= MAX_RETRIES
mayRetry_OneMore(retryCount) == retryCount <= MAX_RETRIES

\* line 1081
mayRetry(retryCount) == retryCount < MAX_RETRIES

\* the catch block of uploadChunkWithRetry (lines 1071-1112) for an error
\* that is neither a pause nor a cancel: kind is "server" (HTTP 500),
\* "net" (network error, timeout, another HTTP status) or "json" (a 2xx
\* answer whose body does not parse)
attemptFailed(R, p, kind) ==
  LET R1 == [R EXCEPT !.chunkProgress[p] = -1, !.consecutiveSuccesses = 0,
                      !.consecutiveServerErrors =
                         IF kind = "server" THEN @ + 1 ELSE @]
  IN IF mayRetry(R.task[p].retryCount)
     THEN LET R2 == IF kind = "server" THEN serverError(R1) ELSE R1
          IN [R2 EXCEPT !.task[p].st = "backoff", !.task[p].err = kind]
     ELSE Continue([R1 EXCEPT !.task[p].st = "rejected",
                              !.task[p].err = "failed",
                              !.currentConcurrency = @ - 1], p)

chunkFailed(r, p, kind) ==
  /\ runs[r].task[p].st = "inflight"
  /\ LET Rnew == attemptFailed(runs[r], p, kind)
     IN /\ runs' = Collect([runs EXCEPT ![r] = Rnew])
        /\ EndEffects(runs[r], Rnew, status, uploadedParts, isUploading, controller)
  /\ permanentFailure' = (permanentFailure \/ ~mayRetry(runs[r].task[p].retryCount))
  /\ UNCHANGED <<transfer, reader, fileSize, file, reselect, isDevelopment, connectionQuality, progress,
                 pausedUploads, uploadComplete, transferId, storage,
                 transferStatus, storedParts, pauseInEffect, resumes>>

\* the backoff timer of line 1107 fires: uploadChunkWithRetry(partNumber,
\* chunk, retryCount + 1), without a dynamic chunk size
retryAttempt(R, p) ==
  LET R1 == StartAttempt(R, p, R.task[p].retryCount + 1, 0)
  IN IF R1.task[p].st = "rejected"
     THEN Continue([R1 EXCEPT !.consecutiveSuccesses = 0,
                              !.currentConcurrency = @ - 1], p)
     ELSE R1

retryTimer(r, p) ==
  /\ runs[r].task[p].st = "backoff"
  /\ LET Rnew == retryAttempt(runs[r], p)
     IN /\ runs' = Collect([runs EXCEPT ![r] = Rnew])
        /\ EndEffects(runs[r], Rnew, status, uploadedParts, isUploading, controller)
  /\ UNCHANGED <<transfer, reader, fileSize, file, reselect, isDevelopment, connectionQuality, progress,
                 pausedUploads, uploadComplete, transferId, storage,
                 transferStatus, storedParts, pauseInEffect, resumes, permanentFailure>>

\* the values event.loaded takes in the model: half of the blob, all of it
Loaded(t, half) == IF half THEN (t.hi - t.lo) \div 2 ELSE t.hi - t.lo

\* the upload progress listener (lines 969-993)
chunkProgressEvent(r, p, half) ==
  /\ runs[r].task[p].st = "inflight"
  /\ ~runs[r].pausedSnap
  /\ Loaded(runs[r].task[p], half) > runs[r].chunkProgress[p]
  /\ LET Rnew == [runs[r] EXCEPT !.chunkProgress[p] = Loaded(runs[r].task[p], half)]
         u == updateRealTimeProgress(Rnew)
     IN /\ runs' = Collect([runs EXCEPT ![r] = Rnew])
        /\ IF u.threw
           THEN UNCHANGED <<status, progress, uploadedParts>>
           ELSE /\ status' = "uploading"
                /\ progress' = u.progress
                /\ uploadedParts' = Rnew.uploadParts
  /\ UNCHANGED <<transfer, reader, fileSize, file, reselect, isDevelopment, connectionQuality, pausedUploads,
                 isUploading, uploadComplete, transferId, controller, storage,
                 transferStatus, storedParts, pauseInEffect, resumes, permanentFailure>>

Kinds == {"server", "net", "json"}

(***************************************************************************)
(* Initial states: a file below or above the multipart threshold has been  *)
(* added to the form, nothing has been submitted yet.                      *)
(***************************************************************************)
Init ==
  /\ transfer = NoTransfer
  /\ reader = NoReader
  /\ fileSize \in FileSizes
  /\ file = "same"
  /\ reselect = NoReselect
  /\ isDevelopment \in BOOLEAN
  /\ connectionQuality \in Tiers
  /\ status = "pending"
  /\ progress = 0
  /\ uploadedParts = <<>>
  /\ pausedUploads = FALSE
  /\ isUploading = FALSE
  /\ uploadComplete = FALSE
  /\ transferId = FALSE
  /\ controller = 0
  /\ storage = NoSnapshot
  /\ transferStatus = "none"
  /\ storedParts = {}
  /\ runs = [r \in Runs |-> IdleRun]
  /\ pauseInEffect = FALSE
  /\ resumes = 0
  /\ permanentFailure = FALSE

(***************************************************************************)
(* Spec: a session of the file in a production build, from its first       *)
(* submit through pauses, cancels, resumes and retries.  The network tier  *)
(* is the one measured at the start of the session and failed attempts are *)
(* of the "net" kind.                                                      *)
(***************************************************************************)
InitSession == Init /\ ~isDevelopment

Next ==
  \/ handleSubmit(connectionQuality)
  \/ pauseFileUpload
  \/ cancelAll
  \/ \E fetchOk \in BOOLEAN, nowExpired \in BOOLEAN :
        resumes < MaxResumes /\ resumeFileUpload(connectionQuality, fetchOk, nowExpired)
  \/ \E r \in Runs : Loop(r)
  \/ \E r \in Runs : Read(r)
  \/ \E r \in Runs : Finish(r)
  \/ \E r \in Runs, ok \in BOOLEAN : completeResponse(r, ok)
  \/ \E r \in Runs, ok \in BOOLEAN : singleResponse(r, ok)
  \/ \E r \in Runs, p \in Parts : chunkLoaded(r, p)
  \/ \E r \in Runs, p \in Parts : chunkFailed(r, p, "net")
  \/ \E r \in Runs, p \in Parts : retryTimer(r, p)
  \/ \E r \in Runs, p \in Parts, half \in BOOLEAN : chunkProgressEvent(r, p, half)

Spec == InitSession /\ [][Next]_vars

(***************************************************************************)
(* SpecUpload: the first upload of the file alone (no resume), in a        *)
(* development or a production build, with every kind of failed attempt.   *)
(***************************************************************************)
NextUpload ==
  \/ handleSubmit(connectionQuality)
  \/ pauseFileUpload
  \/ cancelAll
  \/ \E r \in Runs : Loop(r)
  \/ \E r \in Runs : Read(r)
  \/ \E r \in Runs : Finish(r)
  \/ \E r \in Runs, ok \in BOOLEAN : completeResponse(r, ok)
  \/ \E r \in Runs, ok \in BOOLEAN : singleResponse(r, ok)
  \/ \E r \in Runs, p \in Parts : chunkLoaded(r, p)
  \/ \E r \in Runs, p \in Parts, kind \in Kinds : chunkFailed(r, p, kind)
  \/ \E r \in Runs, p \in Parts : retryTimer(r, p)
  \/ \E r \in Runs, p \in Parts, half \in BOOLEAN : chunkProgressEvent(r, p, half)

SpecUpload == Init /\ [][NextUpload]_vars

(***************************************************************************)
(* SpecLong: a longer session of pauses and resumes of the large file in a *)
(* production build on an excellent connection, the transfer staying open. *)
(***************************************************************************)
InitLong ==
  InitSession /\ fileSize = MaxFileMB * MB /\ connectionQuality = "excellent"

NextLong ==
  \/ handleSubmit(connectionQuality)
  \/ pauseFileUpload
  \/ resumes < LongResumes /\ resumeFileUpload(connectionQuality, TRUE, FALSE)
  \/ \E r \in Runs : Loop(r)
  \/ \E r \in Runs : Read(r)
  \/ \E r \in Runs : Finish(r)
  \/ \E r \in Runs, ok \in BOOLEAN : completeResponse(r, ok)
  \/ \E r \in Runs, p \in Parts : chunkLoaded(r, p)
  \/ \E r \in Runs, p \in Parts : chunkFailed(r, p, "net")
  \/ \E r \in Runs, p \in Parts : retryTimer(r, p)

SpecLong == InitLong /\ [][NextLong]_vars

(***************************************************************************)
(* SpecRestore: the page has been loaded again in a production build while *)
(* localStorage held the snapshot of an upload that was not finished.  The *)
(* mount effect (lines 1605-1627) has put the file of the snapshot, which  *)
(* has no File object, in status error, and has set transferId.            *)
(***************************************************************************)
mountEffect(savedStatus) == IF savedStatus = "completed" THEN "completed" ELSE "error"

InitRestore ==
  /\ transfer = NoTransfer
  /\ reader = NoReader
  /\ fileSize \in FileSizes
  /\ file = "none"
  /\ reselect = NoReselect
  /\ isDevelopment = FALSE
  /\ connectionQuality \in Tiers
  /\ storage = [saved |-> TRUE, status |-> "pending", uploadedParts |-> <<>>]
  /\ status = mountEffect(storage.status)
  /\ progress = 0
  /\ uploadedParts = storage.uploadedParts
  /\ pausedUploads = FALSE
  /\ isUploading = FALSE
  /\ uploadComplete = FALSE
  /\ transferId = TRUE
  /\ controller = 0
  /\ transferStatus = "pending"
  /\ storedParts = {}
  /\ runs = [r \in Runs |-> IdleRun]
  /\ pauseInEffect = FALSE
  /\ resumes = 0
  /\ permanentFailure = FALSE

SelectedNames == {"same", "other"}

NextRestore ==
  \/ \E fetchOk \in BOOLEAN, nowExpired \in BOOLEAN :
        resumes < MaxResumes /\ resumeFileUpload(connectionQuality, fetchOk, nowExpired)
  \/ \E selectedName \in SelectedNames, selectedSize \in FileSizes :
        fileSelected(selectedName, selectedSize)
  \/ selectionCancelled
  \/ \E fetchOk \in BOOLEAN, nowExpired \in BOOLEAN :
        reselectTimer(connectionQuality, fetchOk, nowExpired)
  \/ pauseFileUpload
  \/ \E r \in Runs : Loop(r)
  \/ \E r \in Runs : Read(r)
  \/ \E r \in Runs : Finish(r)
  \/ \E r \in Runs, ok \in BOOLEAN : completeResponse(r, ok)
  \/ \E r \in Runs, ok \in BOOLEAN : singleResponse(r, ok)
  \/ \E r \in Runs, p \in Parts : chunkLoaded(r, p)
  \/ \E r \in Runs, p \in Parts : chunkFailed(r, p, "net")
  \/ \E r \in Runs, p \in Parts : retryTimer(r, p)

SpecRestore == InitRestore /\ [][NextRestore]_vars

(***************************************************************************)
(* SpecBreaker: the first upload of a file of six or fewer parts, left to  *)
(* itself by the user, with every kind of failed attempt.                  *)
(***************************************************************************)
InitBreaker ==
  /\ transfer = NoTransfer
  /\ reader = NoReader
  /\ fileSize = BreakerFileMB * MB
  /\ file = "same"
  /\ reselect = NoReselect
  /\ isDevelopment \in BOOLEAN
  /\ connectionQuality \in Tiers
  /\ status = "pending"
  /\ progress = 0
  /\ uploadedParts = <<>>
  /\ pausedUploads = FALSE
  /\ isUploading = FALSE
  /\ uploadComplete = FALSE
  /\ transferId = FALSE
  /\ controller = 0
  /\ storage = NoSnapshot
  /\ transferStatus = "none"
  /\ storedParts = {}
  /\ runs = [r \in Runs |-> IdleRun]
  /\ pauseInEffect = FALSE
  /\ resumes = 0
  /\ permanentFailure = FALSE

NextBreaker ==
  \/ handleSubmit(connectionQuality)
  \/ \E r \in Runs : Loop(r)
  \/ \E r \in Runs : Read(r)
  \/ \E r \in Runs : Finish(r)
  \/ \E r \in Runs, ok \in BOOLEAN : completeResponse(r, ok)
  \/ \E r \in Runs, p \in Parts : chunkLoaded(r, p)
  \/ \E r \in Runs, p \in Parts, kind \in Kinds : chunkFailed(r, p, kind)
  \/ \E r \in Runs, p \in Parts : retryTimer(r, p)

SpecBreaker == InitBreaker /\ [][NextBreaker]_vars

(***************************************************************************)
(* SpecFair: a session of pauses and resumes of the large file under the   *)
(* scheduling the browser guarantees: a timer                              *)
(* that was set fires, and a request that was sent is answered, fails or   *)
(* times out (xhr.timeout, line 1059).  The user's clicks are under no      *)
(* fairness.                                                               *)
(***************************************************************************)
\* the timer of some generator is pending (line 302)
ReadPending == \E r \in Runs : runs[r].pc = "reading"

\* the step Read(r) would take changes the state
ReadChanges ==
  \A r \in Runs :
    runs[r].pc = "reading" =>
      Collect([runs EXCEPT ![r] = ReadNext(runs[r], connectionQuality)]) # runs

\* Weak fairness of the four kinds of event-loop steps.  That of Read is
\* written out, WF_vars(A) being []<>~(ENABLED <<A>>_vars) \/ []<><<A>>_vars:
\* Read(r) is its guard, runs[r].pc = "reading", and an assignment to every
\* variable, so ENABLED <<\E r \in Runs : Read(r)>>_vars is ReadPending
\* wherever ReadChanges holds.
Fairness ==
  /\ WF_vars(\E r \in Runs : Loop(r))
  /\ WF_vars(\E r \in Runs, p \in Parts :
               chunkLoaded(r, p) \/ chunkFailed(r, p, "net"))
  /\ WF_vars(\E r \in Runs, p \in Parts : retryTimer(r, p))
  /\ ([]<>(~ReadPending) \/ []<><<\E r \in Runs : Read(r)>>_vars)

NextFair ==
  \/ handleSubmit(connectionQuality)
  \/ pauseFileUpload
  \/ resumes < MaxResumes /\ resumeFileUpload(connectionQuality, TRUE, FALSE)
  \/ \E r \in Runs : Loop(r)
  \/ \E r \in Runs : Read(r)
  \/ \E r \in Runs : Finish(r)
  \/ \E r \in Runs, ok \in BOOLEAN : completeResponse(r, ok)
  \/ \E r \in Runs, p \in Parts : chunkLoaded(r, p)
  \/ \E r \in Runs, p \in Parts : chunkFailed(r, p, "net")
  \/ \E r \in Runs, p \in Parts : retryTimer(r, p)

SpecFair == InitLong /\ [][NextFair]_vars /\ Fairness

(***************************************************************************)
(* SpecReader: a StreamingFileReader on its own, for files of 1 to          *)
(* MaxReadSize bytes and chunk sizes of 1 to MaxReadChunk bytes: its        *)
(* generator is driven by next() calls until it is done.                    *)
(***************************************************************************)
OutsideReader ==
  <<transfer, fileSize, file, reselect, isDevelopment, connectionQuality, status, progress,
    uploadedParts, pausedUploads, isUploading, uploadComplete, transferId,
    controller, storage, transferStatus, storedParts, runs,
    pauseInEffect, resumes, permanentFailure>>

\* chunkIterator.next() (line 351) on a generator that is not running
readerNext ==
  /\ reader.pc \in {"new", "yielded"}
  /\ reader' = IF reader.pc = "new" THEN readChunksLoop(reader, fileSize)
               ELSE readChunksResume(reader)
  /\ UNCHANGED OutsideReader

\* the setTimeout of line 302 fires
readerTimer ==
  /\ reader.pc = "timer"
  /\ reader' = readChunksLoop(reader, fileSize)
  /\ UNCHANGED OutsideReader

InitReader ==
  /\ fileSize \in 1..MaxReadSize
  /\ reader \in {NewReader(c) : c \in 1..MaxReadChunk}
  /\ transfer = NoTransfer
  /\ file = "same"
  /\ reselect = NoReselect
  /\ isDevelopment = FALSE
  /\ connectionQuality = "fair"
  /\ status = "pending"
  /\ progress = 0
  /\ uploadedParts = <<>>
  /\ pausedUploads = FALSE
  /\ isUploading = FALSE
  /\ uploadComplete = FALSE
  /\ transferId = FALSE
  /\ controller = 0
  /\ storage = NoSnapshot
  /\ transferStatus = "none"
  /\ storedParts = {}
  /\ runs = [r \in Runs |-> IdleRun]
  /\ pauseInEffect = FALSE
  /\ resumes = 0
  /\ permanentFailure = FALSE

NextReader == readerNext \/ readerTimer

SpecReader == InitReader /\ [][NextReader]_vars

(***************************************************************************)
(* SpecTransfer: a transfer of several files.  Each file's upload is seen  *)
(* from outside: uploadFileInChunks returns the parts, returns [] after a  *)
(* pause, or throws.  The expiry of the transfer and failures of the       *)
(* validation request are left out.                                        *)
(***************************************************************************)
TransferFiles == 1..Len(transfer.file)

OutsideTransfer ==
  <<reader, fileSize, file, reselect, isDevelopment, connectionQuality, status,
    progress, uploadedParts, pausedUploads, controller, storedParts, runs,
    pauseInEffect, resumes, permanentFailure>>

\* handleSubmit with several files (lines 673-741): the transfer is created,
\* every file is set to 'uploading', the snapshot is saved and one promise
\* per file is started
submitTransfer ==
  /\ TransferFiles # {} /\ ~isUploading /\ ~transferId
  /\ \A f \in TransferFiles : transfer.file[f].status = "pending"
  /\ transfer' = [transfer EXCEPT
                    !.file = [f \in TransferFiles |->
                                [status |-> "uploading", promise |-> "uploading",
                                 resume |-> "none"]]]
  /\ isUploading' = TRUE
  /\ transferId' = TRUE
  /\ transferStatus' = "pending"
  /\ storage' = [saved |-> TRUE, status |-> "pending", uploadedParts |-> <<>>]
  /\ UNCHANGED uploadComplete
  /\ UNCHANGED OutsideTransfer

\* the uploadFileInChunks call of a promise of handleSubmit is over (lines
\* 741-748): with parts completeFileUpload sends the POST, with [] (the file
\* was paused, status 'paused') the promise is fulfilled with null, with an
\* error (status 'error', line 1227) it is rejected
promiseUploadEnds(f, outcome) ==
  /\ transfer.file[f].promise = "uploading"
  /\ transfer' = [transfer EXCEPT !.file[f] =
        CASE outcome = "parts" -> [@ EXCEPT !.promise = "completing"]
          [] outcome = "paused" -> [@ EXCEPT !.promise = "null", !.status = "paused"]
          [] outcome = "error" -> [@ EXCEPT !.promise = "rejected", !.status = "error"]]
  /\ UNCHANGED <<isUploading, transferId, transferStatus, storage, uploadComplete>>
  /\ UNCHANGED OutsideTransfer

\* POST /api/transfers/complete (app.ts, lines 664-729) for file f: the row
\* of the file is set to 'completed' and the row of the transfer to
\* 'complete' (lines 697-711); an answer that is not ok changes nothing
completeTransfer(t, tStatus, f, ok) ==
  IF ok THEN [transfer |-> [t EXCEPT !.dbFiles = @ \cup {f}], status |-> "complete"]
  ELSE [transfer |-> t, status |-> tStatus]

\* the POST of a promise of handleSubmit is answered (lines 1247-1266)
promiseCompleteAnswered(f, ok) ==
  /\ transfer.file[f].promise = "completing"
  /\ LET db == completeTransfer(transfer, transferStatus, f, ok)
     IN /\ transfer' = [db.transfer EXCEPT
                          !.file[f].promise = IF ok THEN "value" ELSE "rejected"]
        /\ transferStatus' = db.status
  /\ UNCHANGED <<isUploading, transferId, storage, uploadComplete>>
  /\ UNCHANGED OutsideTransfer

\* lines 750-773: completedUploads.length > 0
someCompleted(t) == \E f \in 1..Len(t.file) : t.file[f].promise = "value"

\* Promise.allSettled has every promise settled (line 750): completion is
\* shown and the snapshot removed if at least one file completed (lines
\* 753-773), and the finally sets isUploading to false (line 785)
allSettled ==
  /\ isUploading
  /\ \A f \in TransferFiles : transfer.file[f].promise \in {"value", "null", "rejected"}
  /\ isUploading' = FALSE
  /\ uploadComplete' = someCompleted(transfer)
  /\ storage' = IF someCompleted(transfer) THEN NoSnapshot ELSE storage
  /\ UNCHANGED <<transfer, transferId, transferStatus>>
  /\ UNCHANGED OutsideTransfer

\* resumeFileUpload for file f of the transfer (lines 1458-1526): with a
\* transferId the transfer is validated first; not valid sets the file to
\* 'error' and clears transferId and the snapshot, otherwise the file is set
\* to 'uploading' and uploadFileInChunks is called
resumeTransferFile(f) ==
  /\ transfer.file[f].status \in {"paused", "error"}
  /\ transfer.file[f].resume = "none"
  /\ ~uploadComplete
  /\ IF transferId /\ ~validateTransfer(FALSE, transferStatus)
     THEN /\ transfer' = [transfer EXCEPT !.file[f].status = "error"]
          /\ transferId' = FALSE
          /\ storage' = NoSnapshot
     ELSE /\ transfer' = [transfer EXCEPT !.file[f].status = "uploading",
                                          !.file[f].resume = "uploading"]
          /\ UNCHANGED <<transferId, storage>>
  /\ UNCHANGED <<isUploading, transferStatus, uploadComplete>>
  /\ UNCHANGED OutsideTransfer

\* the uploadFileInChunks call of resumeFileUpload is over (lines 1527-1534)
resumeUploadEnds(f, outcome) ==
  /\ transfer.file[f].resume = "uploading"
  /\ transfer' = [transfer EXCEPT !.file[f] =
        CASE outcome = "parts" -> [@ EXCEPT !.resume = "completing"]
          [] outcome = "paused" -> [@ EXCEPT !.resume = "none", !.status = "paused"]
          [] outcome = "error" -> [@ EXCEPT !.resume = "none", !.status = "error"]]
  /\ UNCHANGED <<isUploading, transferId, transferStatus, storage, uploadComplete>>
  /\ UNCHANGED OutsideTransfer

\* the POST of resumeFileUpload is answered (lines 1532-1546): an answer
\* that is not ok is caught and sets the file to 'error'
resumeCompleteAnswered(f, ok) ==
  /\ transfer.file[f].resume = "completing"
  /\ LET db == completeTransfer(transfer, transferStatus, f, ok)
     IN /\ transfer' = [db.transfer EXCEPT
                          !.file[f].resume = "none",
                          !.file[f].status = IF ok THEN @ ELSE "error"]
        /\ transferStatus' = db.status
  /\ UNCHANGED <<isUploading, transferId, storage, uploadComplete>>
  /\ UNCHANGED OutsideTransfer

Outcomes == {"parts", "paused", "error"}

InitTransfer ==
  /\ transfer \in {[NoTransfer EXCEPT !.file = [f \in 1..n |-> NewFile]] : n \in 2..MaxFiles}
  /\ reader = NoReader
  /\ fileSize = MaxFileMB * MB
  /\ file = "same"
  /\ reselect = NoReselect
  /\ isDevelopment = FALSE
  /\ connectionQuality = "fair"
  /\ status = "pending"
  /\ progress = 0
  /\ uploadedParts = <<>>
  /\ pausedUploads = FALSE
  /\ isUploading = FALSE
  /\ uploadComplete = FALSE
  /\ transferId = FALSE
  /\ controller = 0
  /\ storage = NoSnapshot
  /\ transferStatus = "none"
  /\ storedParts = {}
  /\ runs = [r \in Runs |-> IdleRun]
  /\ pauseInEffect = FALSE
  /\ resumes = 0
  /\ permanentFailure = FALSE

NextTransfer ==
  \/ submitTransfer
  \/ \E f \in TransferFiles, outcome \in Outcomes : promiseUploadEnds(f, outcome)
  \/ \E f \in TransferFiles, ok \in BOOLEAN : promiseCompleteAnswered(f, ok)
  \/ allSettled
  \/ \E f \in TransferFiles : resumeTransferFile(f)
  \/ \E f \in TransferFiles, outcome \in Outcomes : resumeUploadEnds(f, outcome)
  \/ \E f \in TransferFiles, ok \in BOOLEAN : resumeCompleteAnswered(f, ok)

SpecTransfer == InitTransfer /\ [][NextTransfer]_vars

(***************************************************************************)
(* The properties.                                                         *)
(***************************************************************************)
PendingCount(R) == Cardinality({p \in Parts : Pending(R.task[p])})

Ascending(s) == \A i, j \in 1..Len(s) : i < j => s[i] < s[j]

Multipart(R) == R.pc # "idle" /\ R.chunkSize < fileSize

\* C1: when uploadFileInChunks returns normally, the list it returns holds
\* every part number from 1 to totalChunks = ceil(fileSize / chunkSize)
\* exactly once: as many elements as there are parts, and every part among
\* them.
C1_EveryPartExactlyOnce ==
  \A r \in Runs :
    runs[r].outcome = "ok" =>
      LET totalChunks == getTotalChunks(fileSize, runs[r].chunkSize)
      IN /\ Len(runs[r].returned) = totalChunks
         /\ Range(runs[r].returned) = 1..totalChunks

\* a resumed multipart run of three parts has returned normally
C1_Witness ==
  \E r \in Runs :
    /\ runs[r].caller = "resume" /\ runs[r].outcome = "ok"
    /\ Multipart(runs[r]) /\ Len(runs[r].returned) = 3

\* C2: every attempt for a part p, the first one and each retry, sends the
\* bytes [(p-1)*S, min(p*S, fileSize)), S being the chunk size the file reader
\* was created with.
C2_EveryAttemptSendsTheReaderChunk ==
  \A r \in Runs, p \in Parts :
    runs[r].task[p].st \in {"inflight", "backoff", "fulfilled"} =>
      /\ runs[r].task[p].lo = (p - 1) * runs[r].chunkSize
      /\ runs[r].task[p].hi = Min(p * runs[r].chunkSize, fileSize)

\* C3: the chunk-upload tasks of a run that are dispatched and not settled,
\* those waiting for a retry included, are never more than the concurrency
\* the scheduler was started with.
C3_InFlightAtMostConcurrency ==
  \A r \in Runs : PendingCount(runs[r]) <= runs[r].concurrency

\* a run at its full concurrency, one task waiting for its retry, with chunks
\* of the file still to be read
C3_Witness ==
  \E r \in Runs :
    /\ PendingCount(runs[r]) = runs[r].concurrency
    /\ \E p \in Parts : runs[r].task[p].st = "backoff"
    /\ runs[r].lastRead < runs[r].chunks

\* C4: POST /api/transfers/complete is issued for a run only when the run
\* returned normally and every part 1..totalChunks of the file was uploaded
\* successfully in it; never for a run that ended by a pause, a cancel or a
\* permanent chunk failure.
C4_FinalizeOnlyAfterAllParts ==
  \A r \in Runs :
    runs[r].pc = "completing" =>
      /\ runs[r].outcome = "ok"
      /\ Len(runs[r].finalizeWith) > 0
      /\ Multipart(runs[r]) =>
            \A p \in 1..getTotalChunks(fileSize, runs[r].chunkSize) :
              runs[r].task[p].st = "fulfilled" /\ p \in storedParts

\* the first upload of a three-part file is being finalized
C4_Witness ==
  \E r \in Runs :
    /\ runs[r].pc = "completing" /\ runs[r].caller = "submit"
    /\ Multipart(runs[r]) /\ storedParts = {1, 2, 3}

\* C5: the parts list posted to /api/transfers/complete, which the route
\* hands to completeUpload as it is, is strictly ascending by part number.
C5_PartsAscendingAtComplete ==
  \A r \in Runs : runs[r].pc = "completing" => Ascending(runs[r].finalizeWith)

\* a list of several parts is being posted while the transfer is pending
C5_Witness ==
  \E r \in Runs :
    /\ runs[r].pc = "completing" /\ Len(runs[r].finalizeWith) >= 2
    /\ transferStatus = "pending"

\* C6: from a call of pauseFileUpload for the uploading file until the next
\* call of resumeFileUpload no request to /api/uploads/chunk is sent for the
\* file: no further chunk is dispatched and no chunk is retried.
C6_NoCallWhilePaused ==
  [][pauseInEffect /\ pauseInEffect' =>
       \A r \in Runs, p \in Parts :
         runs'[r].task[p].calls <= runs[r].task[p].calls]_vars

\* C7: when the file has halted in status paused or error, no invocation
\* being left, FileInfo.uploadedParts holds exactly the parts the coordinator
\* has acknowledged: none is lost and none is added.
C7_RecordedPartsAreTheAcknowledged ==
  (status \in {"paused", "error"} /\ \A r \in Runs : runs[r].pc = "idle") =>
    Range(uploadedParts) = storedParts

\* C8: a run started by resumeFileUpload sends no part the coordinator has
\* already acknowledged for the file: it uploads the missing parts only.
C8_ResumeSendsOnlyMissingParts ==
  \A r \in Runs, p \in Parts :
    (runs[r].caller = "resume" /\ runs[r].task[p].st = "inflight") =>
      p \notin storedParts

\* C9: FileInfo.progress, the percentage shown for the file, never goes down.
C9_ProgressNeverDecreases == [][progress' >= progress]_vars

\* C10: a dispatched chunk makes one request per attempt and at most
\* MAX_RETRIES + 1 = 4 requests in all; a task waits for a retry only after
\* fewer than 4 failed attempts, so the 4th failure rejects the task for good.
C10_AtMostFourCalls ==
  \A r \in Runs, p \in Parts :
    LET t == runs[r].task[p]
    IN /\ t.calls <= MAX_RETRIES + 1
       /\ Pending(t) => t.calls = t.retryCount + 1
       /\ t.st = "backoff" => t.retryCount < MAX_RETRIES

\* the 4th request of a chunk is in flight
C10_Witness ==
  \E r \in Runs, p \in Parts :
    runs[r].task[p].st = "inflight" /\ runs[r].task[p].calls = MAX_RETRIES + 1

\* the same invocation of uploadFileInChunks before and after the step
SameRun(r) == runs[r].pc # "idle" /\ runs'[r].pc # "idle"

Threshold == IF isDevelopment THEN 2 ELSE 5
Floor == IF isDevelopment THEN 1 ELSE 2
Reduced(c) == IF isDevelopment THEN (c * 3) \div 10 ELSE (c * 5) \div 10

Tripped(R) == R.pc # "idle" /\ R.CONCURRENT_UPLOADS < R.concurrency

\* C11: the allowed concurrency of an invocation stays as it is while fewer
\* consecutive server-class errors than the threshold (5, in development 2)
\* have occurred, and the error that makes the threshold, at a concurrency C
\* above the floor (2, in development 1), sets it to max(floor, floor(C*0.5))
\* (in development floor(C*0.3)).
C11_BreakerTripsAtThreshold ==
  [][\A r \in Runs :
       SameRun(r) =>
         LET R == runs[r]
             Rn == runs'[r]
         IN /\ Rn.consecutiveServerErrors < Threshold =>
                 Rn.CONCURRENT_UPLOADS = R.CONCURRENT_UPLOADS
            /\ (/\ Rn.consecutiveServerErrors = Threshold
                /\ R.consecutiveServerErrors = Threshold - 1
                /\ R.CONCURRENT_UPLOADS > Floor) =>
                 Rn.CONCURRENT_UPLOADS = Max(Floor, Reduced(R.CONCURRENT_UPLOADS))]_vars

\* C12: a successful chunk upload adds 1 to consecutiveSuccesses and sets the
\* server-error counter of the circuit breaker to 0.
C12_SuccessResetsServerErrors ==
  [][\A r \in Runs, p \in Parts :
       (/\ SameRun(r)
        /\ runs[r].task[p].st = "inflight"
        /\ runs'[r].task[p].st = "fulfilled") =>
         /\ runs'[r].consecutiveSuccesses = runs[r].consecutiveSuccesses + 1
         /\ runs'[r].serverErrorCount = 0]_vars

\* C13: once the circuit breaker has lowered the allowed concurrency of an
\* invocation to C', a step that dispatches a new chunk leaves at most C'
\* chunk uploads of the invocation unsettled.
C13_DispatchWithinLoweredBound ==
  [][\A r \in Runs :
       (/\ SameRun(r) /\ Tripped(runs[r])
        /\ \E p \in Parts : runs[r].task[p].st = "none"
                             /\ runs'[r].task[p].st # "none") =>
         PendingCount(runs'[r]) <= runs[r].CONCURRENT_UPLOADS]_vars

\* a chunk is in flight that was dispatched after the breaker had tripped
C13_Witness ==
  \E r \in Runs, p \in Parts :
    /\ Tripped(runs[r]) /\ runs[r].task[p].st = "inflight"
    /\ runs[r].task[p].calls = 1 /\ runs[r].serverErrorCount = Threshold

\* C14: while the allowed concurrency is below its original value, the 5th
\* consecutive successful chunk upload raises it by exactly 1.
C14_FiveSuccessesRaiseByOne ==
  [][\A r \in Runs :
       (/\ SameRun(r) /\ Tripped(runs[r])
        /\ runs[r].consecutiveSuccesses = 4
        /\ runs'[r].consecutiveSuccesses = 5) =>
         runs'[r].CONCURRENT_UPLOADS = runs[r].CONCURRENT_UPLOADS + 1]_vars

\* C16: once the upload of the file has finished with all its parts uploaded
\* and the transfer has been finalized, nothing of it being left to run, the
\* status of the file is completed.
C16_FinishedUploadIsCompleted ==
  (uploadComplete /\ \A r \in Runs : runs[r].pc = "idle") => status = "completed"

\* C18: when Cancel All has been confirmed, the status of the file is not
\* uploading and not error.
C18_CancelledIsNotUploading ==
  [][cancelAll => status' \notin {"uploading", "error"}]_vars

\* C19: a chunk request of an invocation started by resumeFileUpload is sent
\* only after /api/transfers/validate has answered that the transfer is
\* still open.
C19_ResumeUploadsOnlyValidated ==
  \A r \in Runs, p \in Parts :
    (runs[r].caller = "resume" /\ runs[r].task[p].st = "inflight") =>
      runs[r].validated

\* C17: the step in which a chunk fails for good puts the file in status
\* error, and from then until the user retries no chunk of the file is
\* dispatched.
C17_PermanentFailureStopsTheJob ==
  [][/\ (~permanentFailure /\ permanentFailure') => status' = "error"
     /\ (permanentFailure /\ permanentFailure') =>
          \A r \in Runs, p \in Parts :
            runs[r].task[p].st = "none" => runs'[r].task[p].st = "none"]_vars

Edges ==
  {<<"pending", "uploading">>, <<"uploading", "completed">>,
   <<"uploading", "paused">>, <<"uploading", "error">>,
   <<"paused", "uploading">>, <<"paused", "error">>, <<"error", "uploading">>}

\* C15: every change of the file's status is one of the edges
\* pending->uploading, uploading->completed, uploading->paused,
\* uploading->error, paused->uploading, paused->error, error->uploading.
C15_StatusFollowsTheEdges ==
  [][status' # status => <<status, status'>> \in Edges]_vars

\* C20: a file restored from the snapshot has no upload running and is in
\* status error until the user has asked to resume it and has re-selected a
\* file with the name and the size of the original; after a selection that is
\* cancelled or does not match there is still no upload.
C20_NoUploadBeforeReselection ==
  /\ (\E r \in Runs : runs[r].pc # "idle") => (file = "same" /\ resumes > 0)
  /\ file # "same" => (status = "error" /\ file = "none")

\* a chunk of the restored file is in flight after the re-selection
C20_Witness ==
  \E r \in Runs, p \in Parts :
    /\ runs[r].task[p].st = "inflight" /\ runs[r].caller = "resume"
    /\ storage.saved /\ ~isUploading /\ file = "same" /\ resumes = 1

\* C21: whenever a snapshot of the session is in local storage, it holds the
\* current status of the file and its current list of completed parts.
C21_SnapshotIsCurrent ==
  storage.saved => /\ storage.status = status
                   /\ storage.uploadedParts = uploadedParts

SmallSizes == {1, 3 * MB, 5 * MB - 1}

\* C22: every size below 5 MiB is a single upload under every network tier,
\* and an invocation of uploadFileInChunks for a file below 5 MiB sends
\* exactly one whole-file PUT and never a chunk request.
C22_SmallFileIsOnePut ==
  /\ \A s \in SmallSizes, q \in Tiers :
        isSingleUpload(getAdaptiveChunkSize(s, 0, q), s)
  /\ \A r \in Runs :
        (fileSize < 5 * MB /\ runs[r].pc # "idle") =>
          /\ runs[r].puts = 1
          /\ \A p \in Parts : runs[r].task[p] = NoTask

\* the PUT of the small file was answered and the transfer is being completed
C22_Witness ==
  /\ fileSize < 5 * MB
  /\ \E r \in Runs : /\ runs[r].pc = "completing" /\ runs[r].puts = 1
                      /\ runs[r].finalizeWith = <<1>>

\* C23 as stated: an invocation for the 12 MiB file sends one whole-file PUT
\* and no chunk request, whatever the network tier.
C23_TwelveMiBIsOnePut ==
  \A r \in Runs :
    (fileSize = 12 * MB /\ runs[r].pc # "idle") =>
      /\ runs[r].puts = 1
      /\ \A p \in Parts : runs[r].task[p] = NoTask

\* C23 amended: an invocation for the 12 MiB file is a multipart upload of 2
\* parts (excellent, good) or 3 parts (fair, poor, unstable) and sends no
\* whole-file PUT.
C23_TwelveMiBIsMultipart ==
  \A r \in Runs :
    (fileSize = 12 * MB /\ runs[r].pc # "idle") =>
      /\ runs[r].puts = 0 /\ runs[r].pc # "single"
      /\ runs[r].chunks = IF connectionQuality \in {"excellent", "good"} THEN 2 ELSE 3

\* all parts of the 12 MiB file went up as chunk requests
C23_Witness ==
  /\ fileSize = 12 * MB
  /\ \E r \in Runs : /\ runs[r].pc = "completing" /\ runs[r].puts = 0
                      /\ Len(runs[r].finalizeWith) = runs[r].chunks

\* C24: while a request for part 1, 2 or 3 of a multipart upload is in flight,
\* the chunk size getAdaptiveChunkSize computes for that part is 5 MiB under
\* the current network tier, and the request carries 5 MiB (or what is left
\* of the file, if less).
C24_FirstPartsAreFiveMiB ==
  \A r \in Runs, p \in Parts :
    (Multipart(runs[r]) /\ p <= 3 /\ runs[r].task[p].st = "inflight") =>
      /\ getAdaptiveChunkSize(fileSize, p, connectionQuality) = 5 * MB
      /\ runs[r].task[p].hi - runs[r].task[p].lo =
           Min(5 * MB, fileSize - runs[r].task[p].lo)

\* C25: an attempt that failed with a 2xx answer whose body is not JSON is
\* not retried: the task of its part never waits for a retry after it.
C25_MalformedResponseIsNotRetried ==
  \A r \in Runs, p \in Parts :
    ~(runs[r].task[p].st = "backoff" /\ runs[r].task[p].err = "json")

\* C26: whenever a chunk request is in flight, an HTTP 500 answer to it
\* would raise serverErrorCount by one, also when it is the answer to the
\* last attempt the part has.
C26_EveryServerErrorCounts ==
  \A r \in Runs, p \in Parts :
    runs[r].task[p].st = "inflight" =>
      attemptFailed(runs[r], p, "server").serverErrorCount =
        runs[r].serverErrorCount + 1

\* C27: the chunks readChunks has yielded so far carry the part numbers 1, 2,
\* ... in this order, chunk p covers the bytes [(p-1)*chunkSize,
\* min(p*chunkSize, size)), isLast is true for chunk ceil(size/chunkSize)
\* only, and a generator that is done has yielded getTotalChunks() chunks.
C27_ReadChunksCutsTheFile ==
  reader.pc # "none" =>
    LET total == getTotalChunks(fileSize, reader.chunkSize)
        n == Len(reader.yields)
    IN /\ n <= total
       /\ reader.pc = "done" => n = total
       /\ \A i \in 1..n :
            /\ reader.yields[i].partNumber = i
            /\ reader.yields[i].lo = (i - 1) * reader.chunkSize
            /\ reader.yields[i].hi = Min(i * reader.chunkSize, fileSize)
            /\ reader.yields[i].isLast = (i = total)

\* a file cut into three or more chunks, the last one shorter than the others
C27_Witness ==
  /\ reader.pc = "done" /\ Len(reader.yields) >= 3
  /\ fileSize % reader.chunkSize # 0

LoopPcs == {"top", "reading", "raceWait", "scanWait"}

\* C28: an invocation that is in the loop of streamingConcurrentUpload leaves
\* it, the timers firing and the requests settling: the loop ends, and then
\* every part of the file is in uploadParts, or an error is thrown out of it.
C28_SchedulerTerminates ==
  /\ []ReadChanges
  /\ \A r \in Runs : (runs[r].pc \in LoopPcs) ~> (runs[r].pc \notin LoopPcs)
  /\ [](\A r \in Runs : runs[r].pc = "finishing" =>
                           Range(runs[r].uploadParts) = 1..runs[r].chunks)

\* the loop has ended with both parts of the file uploaded
C28_Witness ==
  \E r \in Runs : /\ runs[r].pc = "finishing" /\ runs[r].chunks >= 2
                  /\ Len(runs[r].uploadParts) = runs[r].chunks

\* C29: within one invocation of uploadFileInChunks no step raises
\* CONCURRENT_UPLOADS, the value is at least 1 at all times, a step that
\* changes it leaves it at or above the floor (2, in development 1), and a
\* value at or below the floor is not changed.
C29_ConcurrencyOnlyFallsToTheFloor ==
  [][\A r \in Runs :
       SameRun(r) =>
         LET c == runs[r].CONCURRENT_UPLOADS
             cn == runs'[r].CONCURRENT_UPLOADS
         IN /\ cn <= c
            /\ c >= 1 /\ cn >= 1
            /\ cn # c => cn >= Floor
            /\ c <= Floor => cn = c
            \* the breaker applied to every value getAdaptiveConcurrency can
            \* return (1..12) and every count of earlier server errors
            /\ \A c0 \in 1..12, n \in 0..Threshold :
                 LET c1 == serverError([runs[r] EXCEPT
                                          !.CONCURRENT_UPLOADS = c0,
                                          !.serverErrorCount = n]).CONCURRENT_UPLOADS
                 IN /\ c1 <= c0 /\ c1 >= 1
                    /\ c1 # c0 => c1 >= Floor
                    /\ c0 <= Floor => c1 = c0]_vars

\* the breaker has lowered the value to the floor, and a later server error
\* of the invocation, past the threshold, has left it there
C29_Witness ==
  \E r \in Runs :
    /\ Tripped(runs[r])
    /\ runs[r].CONCURRENT_UPLOADS = Floor
    /\ runs[r].serverErrorCount > Threshold

\* C30: in a transfer of several files, the transfer is marked complete on
\* the server, completion is shown and the snapshot is removed only when
\* every file of the transfer has completed, and a file that is paused or in
\* error while the transfer's id is known passes the validation of a resume.
C30_CompleteOnlyWhenAllFilesAre ==
  /\ (transferStatus = "complete" \/ uploadComplete) =>
        transfer.dbFiles = TransferFiles
  /\ \A f \in TransferFiles :
       (transfer.file[f].status \in {"paused", "error"} /\ transferId) =>
         validateTransfer(FALSE, transferStatus)

====
